---- MODULE Spec2Model ----
(***************************************************************************)
(* The refinement conversation engine of the question-generation backend:  *)
(* the /refine handler with its in-memory conversation store, the          *)
(* conversation read and reset handlers, and the persisted Question and    *)
(* RefinementEntry tables the handler writes; and the document and         *)
(* similarity generation routes with the GenerationSession table.          *)
(***************************************************************************)
EXTENDS Integers, Sequences, FiniteSets, TLC

VARIABLES
    questions,      \* table question: id -> row
    refinements,    \* table refinemententry, in insertion order
    conversations,  \* the module-level dict _conversations
    nminted,        \* how many conversation ids uuid4() has produced
    issued,         \* the conversation ids that responses have carried to callers
    call,           \* the request being answered by the last handler run
    gen,            \* what the last handler run handed to the generation engine
    resp,           \* the response (or failure) of the last handler run
    tally,          \* running counts of handler outcomes, per conversation and question
    sessions,       \* table generationsession, each row with the question rows it owns
    ncalls,         \* handler runs so far
    inflight        \* refine requests the server has received and not yet run

vars == <<questions, refinements, conversations, nminted, issued, call, gen, resp, tally,
          sessions, ncalls, inflight>>

----------------------------------------------------------------------------
(* Bounds *)

\* handler runs explored; uuid4() is therefore called at most MaxCalls times
MaxCalls == 2

\* handler runs explored when only the conversation handlers run, on anonymous
\* requests without a question id
MaxLifecycleCalls == 3

\* handler runs explored of the generation and similarity routes
MaxGenerationCalls == 2

\* refine requests received when requests wait for the event loop together
MaxInFlightCalls == 3

----------------------------------------------------------------------------
(* Python values *)

\* Optional[T]: None is the empty tuple, a present value x is <<x>>.
None == <<>>
Some(x) == <<x>>

\* Truthiness of an Optional[str] and of an Optional[list]: None, "" and [] are falsy.
TruthyStr(o) == o # None /\ o[1] # ""
TruthyList(o) == o # None /\ Len(o[1]) > 0

\* x or y, for Optional[str] operands
OrStr(x, y) == IF TruthyStr(x) THEN x ELSE y

QuestionIds == {"q1", "q2"}
\* a well-formed question id that no row has ever had
UnknownQuestionIds == {"q0"}
UserIds == {"u1", "u2"}
\* the identities that send requests: u1 owns q1 and does not own q2
CallerIds == {"u1"}
\* Conversation ids a caller can invent; uuid4() yields 1, 2, ... and never one of these.
InventedIds == {0}

\* QuestionType(str, Enum): the members and their values
QuestionType_MCQ == "MCQ"
QuestionType_OPEN_ENDED == "OPEN_ENDED"
EnumValue(member) == IF member = QuestionType_MCQ THEN "mcq" ELSE "open_ended"

OptA(correct) == [label |-> "A", text |-> "oa", is_correct |-> correct]
OptB(correct) == [label |-> "B", text |-> "ob", is_correct |-> correct]

\* The rows the question table can hold when the process starts.
InitialQuestions ==
    [q \in QuestionIds |->
        IF q = "q1"
        THEN [owner_id |-> Some("u1"), session_id |-> Some("s1"),
              question_text |-> "text-q1", question_type |-> QuestionType_MCQ,
              difficulty |-> "medium", topic |-> Some("Biology"),
              explanation |-> "expl-q1", correct_answer |-> "A",
              options |-> Some(<<OptA(TRUE), OptB(FALSE)>>)]
        ELSE [owner_id |-> Some("u2"), session_id |-> None,
              question_text |-> "text-q2", question_type |-> QuestionType_OPEN_ENDED,
              difficulty |-> "easy", topic |-> None,
              explanation |-> "expl-q2", correct_answer |-> "free",
              options |-> None]]

\* Inline QuestionState bodies of requests (after pydantic filled the defaults).
InlineStates ==
    { [question_text |-> "text-in", question_type |-> "mcq", difficulty |-> "medium",
       topic |-> Some("Physics"), explanation |-> "", correct_answer |-> "B",
       options |-> Some(<<OptA(FALSE), OptB(TRUE)>>)] }

Instructions == {"Make harder"}

\* RefinedQuestion values the generation engine can return: the schema leaves
\* question_type any string, topic optional and options optional.
RefinedQuestions ==
    { [question_text |-> "text-r1", question_type |-> "mcq", difficulty |-> "hard",
       topic |-> None, explanation |-> "expl-r1",
       options |-> Some(<<OptA(FALSE), OptB(TRUE)>>), correct_answer |-> "B",
       changes_made |-> "answer is now B", confidence_score |-> 94],
      [question_text |-> "text-r2", question_type |-> "open_ended", difficulty |-> "easy",
       topic |-> Some("Chemistry"), explanation |-> "expl-r2",
       options |-> None, correct_answer |-> "free2",
       changes_made |-> "made open ended", confidence_score |-> 80],
      [question_text |-> "text-r3", question_type |-> "multiple_choice", difficulty |-> "medium",
       topic |-> Some(""), explanation |-> "expl-r3",
       options |-> Some(<<>>), correct_answer |-> "A",
       changes_made |-> "reworded", confidence_score |-> 50] }

\* generator.refine_question either raises (None) or returns a RefinedQuestion.
GenerationOutcomes == {None} \cup {Some(r) : r \in RefinedQuestions}

\* RefinementRequest bodies: neither target, an inline state, a question id, or both
\* (both is sent for q1 only); a caller can name an invented conversation id or any
\* id a response has carried.
KnownConversationIds == InventedIds \cup issued

\* The state dicts the program has recorded and serves back to callers: the
\* current_state of a conversation (GET /conversation/{id}) and the new_state of a
\* RefinementEntry (GET /history/{question_id}).
RecordedStates ==
    {conversations[c].current_state : c \in DOMAIN conversations}
        \cup {refinements[i].new_state : i \in 1..Len(refinements)}

\* A recorded state is re-submitted as the only target of a request that opens a new
\* conversation; an unknown question id is sent without an inline state.
RefinementRequests ==
    { r \in [question_id : {None} \cup {Some(q) : q \in QuestionIds \cup UnknownQuestionIds},
             question_state : {None} \cup {Some(s) : s \in InlineStates \cup RecordedStates},
             instruction : Instructions,
             conversation_id : {None} \cup {Some(c) : c \in KnownConversationIds}] :
        /\ (r.question_id # None /\ r.question_state # None) => r.question_id = Some("q1")
        /\ (r.question_state # None /\ r.question_state[1] \notin InlineStates)
              => (r.question_id = None /\ r.conversation_id = None) }

\* the requests of an anonymous caller who names no stored question
LifecycleRequests == {r \in RefinementRequests : r.question_id = None}

\* OptionalUser: no identity, or an identified user
CurrentUsers == {None} \cup {Some(u) : u \in CallerIds}

----------------------------------------------------------------------------
(* services/question_generator.py *)

\* _format_question_state: the text rendered from a state dict (topic is not rendered)
FormatQuestionState(state) ==
    [question |-> state.question_text,
     type |-> state.question_type,
     difficulty |-> state.difficulty,
     options |-> IF TruthyList(state.options) THEN state.options[1] ELSE <<>>,
     correct_answer |-> state.correct_answer,
     explanation |-> state.explanation]

\* QuestionGeneratorService.refine_question: the messages sent to the engine
RefineMessages(question_state, instruction, conversation_history) ==
    (IF conversation_history # None /\ Len(conversation_history[1]) > 0
     THEN conversation_history[1] ELSE <<>>)
    \o <<[role |-> "user",
          content |-> [state_text |-> FormatQuestionState(question_state),
                       instruction |-> instruction]]>>

NotCalled == [called |-> FALSE]

----------------------------------------------------------------------------
(* api/routes/refinement.py: refine_question, one operator per block of the *)
(* handler.  A frame f holds the handler's locals and the globals it reads  *)
(* and writes; f.raised is "" until a block raises.                         *)

Frame(request, current_user, outcome, commit_ok) ==
    [request |-> request, current_user |-> current_user,
     outcome |-> outcome, commit_ok |-> commit_ok,
     questions |-> questions, refinements |-> refinements,
     conversations |-> conversations, nminted |-> nminted,
     raised |-> "", gen |-> NotCalled,
     question_state |-> None, question_id |-> None,
     conversation_history |-> <<>>, turn_number |-> 1,
     conversation_id |-> 0, new_state |-> None,
     response |-> None]

\* Variant: the dump carries the schema's default question_type.
ModelDump_DefaultType(s) ==
    [question_text |-> s.question_text, question_type |-> "mcq",
     difficulty |-> s.difficulty, topic |-> s.topic, explanation |-> s.explanation,
     correct_answer |-> s.correct_answer, options |-> s.options]

\* QuestionState.model_dump()
ModelDump(s) ==
    [question_text |-> s.question_text, question_type |-> s.question_type,
     difficulty |-> s.difficulty, topic |-> s.topic, explanation |-> s.explanation,
     correct_answer |-> s.correct_answer, options |-> s.options]

\* the dict built from a stored Question row
StateOfQuestion(question) ==
    [question_text |-> question.question_text,
     question_type |-> EnumValue(question.question_type),
     difficulty |-> question.difficulty, topic |-> question.topic,
     explanation |-> question.explanation,
     correct_answer |-> question.correct_answer, options |-> question.options]

\* Variant: a question id with no row falls back to the named conversation's state.
GetQuestionState_FallingBackToConversation(f) ==
    IF f.raised # "" THEN f
    ELSE IF f.request.question_id # None
    THEN IF f.request.question_id[1] \notin DOMAIN f.questions
         THEN IF f.request.conversation_id # None
                 /\ f.request.conversation_id[1] \in DOMAIN f.conversations
              THEN [f EXCEPT !.question_state =
                        f.conversations[f.request.conversation_id[1]].current_state]
              ELSE [f EXCEPT !.raised = "404"]
         ELSE [f EXCEPT !.question_state =
                            StateOfQuestion(f.questions[f.request.question_id[1]]),
                        !.question_id = f.request.question_id]
    ELSE IF f.request.question_state # None
    THEN [f EXCEPT !.question_state = ModelDump(f.request.question_state[1]),
                   !.question_id = None]
    ELSE [f EXCEPT !.raised = "400"]

\* "Get question state"
GetQuestionState(f) ==
    IF f.raised # "" THEN f
    ELSE IF f.request.question_id # None
    THEN IF f.request.question_id[1] \notin DOMAIN f.questions
         THEN [f EXCEPT !.raised = "404"]
         ELSE [f EXCEPT !.question_state =
                            StateOfQuestion(f.questions[f.request.question_id[1]]),
                        !.question_id = f.request.question_id]
    ELSE IF f.request.question_state # None
    THEN [f EXCEPT !.question_state = ModelDump(f.request.question_state[1]),
                   !.question_id = None]
    ELSE [f EXCEPT !.raised = "400"]

\* Variant: the turn number is taken from the number of history entries.
HandleConversationContinuity_CountingEntries(f) ==
    IF f.raised # "" THEN f
    ELSE IF f.request.conversation_id # None
            /\ f.request.conversation_id[1] \in DOMAIN f.conversations
    THEN LET conv == f.conversations[f.request.conversation_id[1]] IN
         [f EXCEPT !.conversation_history = conv.history,
                   !.question_state = conv.current_state,
                   !.turn_number = Len(conv.history) + 1]
    ELSE f

\* Variant: the state resolved from the request is kept for an existing conversation.
HandleConversationContinuity_KeepingTarget(f) ==
    IF f.raised # "" THEN f
    ELSE IF f.request.conversation_id # None
            /\ f.request.conversation_id[1] \in DOMAIN f.conversations
    THEN LET conv == f.conversations[f.request.conversation_id[1]] IN
         [f EXCEPT !.conversation_history = conv.history,
                   !.turn_number = (Len(conv.history) \div 2) + 1]
    ELSE f

\* "Handle conversation continuity"
HandleConversationContinuity(f) ==
    IF f.raised # "" THEN f
    ELSE IF f.request.conversation_id # None
            /\ f.request.conversation_id[1] \in DOMAIN f.conversations
    THEN LET conv == f.conversations[f.request.conversation_id[1]] IN
         [f EXCEPT !.conversation_history = conv.history,
                   !.question_state = conv.current_state,
                   !.turn_number = (Len(conv.history) \div 2) + 1]
    ELSE f

\* "Generate refinement"
GenerateRefinement(f) ==
    IF f.raised # "" THEN f
    ELSE LET history == IF Len(f.conversation_history) > 0
                        THEN Some(f.conversation_history) ELSE None
             g == [called |-> TRUE,
                   question_state |-> f.question_state,
                   instruction |-> f.request.instruction,
                   conversation_history |-> history,
                   messages |-> RefineMessages(f.question_state,
                                               f.request.instruction, history)]
         IN IF f.outcome = None
            THEN [f EXCEPT !.gen = g, !.raised = "GenerationFailure"]
            ELSE [f EXCEPT !.gen = g]

\* "Create or update conversation": the id and the new_state dict
NewState(result, question_state) ==
    [question_text |-> result.question_text,
     question_type |-> result.question_type,
     difficulty |-> result.difficulty,
     topic |-> OrStr(result.topic, question_state.topic),
     explanation |-> result.explanation,
     correct_answer |-> result.correct_answer,
     options |-> IF TruthyList(result.options) THEN result.options ELSE None]

CreateOrUpdateConversation(f) ==
    IF f.raised # "" THEN f
    ELSE IF f.request.conversation_id # None
    THEN [f EXCEPT !.conversation_id = f.request.conversation_id[1],
                   !.new_state = NewState(f.outcome[1], f.question_state)]
    ELSE [f EXCEPT !.conversation_id = f.nminted + 1,
                   !.nminted = f.nminted + 1,
                   !.new_state = NewState(f.outcome[1], f.question_state)]

\* Variant: the two entries replace the history instead of extending it.
UpdateConversationStore_Replacing(f) ==
    IF f.raised # "" THEN f
    ELSE LET cid == f.conversation_id
             result == f.outcome[1]
             turn == <<[role |-> "user", content |-> f.request.instruction],
                       [role |-> "assistant",
                        content |-> "Changes: " \o result.changes_made]>>
         IN [f EXCEPT !.conversations =
                [c \in DOMAIN f.conversations \cup {cid} |->
                    IF c = cid
                    THEN [question_id |-> IF cid \in DOMAIN f.conversations
                                          THEN f.conversations[cid].question_id
                                          ELSE f.question_id,
                          history |-> turn,
                          current_state |-> f.new_state]
                    ELSE f.conversations[c]]]

\* Variant: the snapshot is set when the conversation is created and not afterwards.
UpdateConversationStore_StaleSnapshot(f) ==
    IF f.raised # "" THEN f
    ELSE LET cid == f.conversation_id
             result == f.outcome[1]
             turn == <<[role |-> "user", content |-> f.request.instruction],
                       [role |-> "assistant",
                        content |-> "Changes: " \o result.changes_made]>>
         IN [f EXCEPT !.conversations =
                [c \in DOMAIN f.conversations \cup {cid} |->
                    IF c # cid THEN f.conversations[c]
                    ELSE IF cid \in DOMAIN f.conversations
                    THEN [f.conversations[cid] EXCEPT !.history = @ \o turn]
                    ELSE [question_id |-> f.question_id,
                          history |-> turn,
                          current_state |-> f.new_state]]]

\* Variant: only the assistant entry is appended to the history.
UpdateConversationStore_AssistantOnly(f) ==
    IF f.raised # "" THEN f
    ELSE LET cid == f.conversation_id
             result == f.outcome[1]
             turn == <<[role |-> "assistant",
                        content |-> "Changes: " \o result.changes_made]>>
         IN [f EXCEPT !.conversations =
                [c \in DOMAIN f.conversations \cup {cid} |->
                    IF c # cid THEN f.conversations[c]
                    ELSE IF cid \in DOMAIN f.conversations
                    THEN [f.conversations[cid] EXCEPT !.history = @ \o turn,
                                                      !.current_state = f.new_state]
                    ELSE [question_id |-> f.question_id,
                          history |-> turn,
                          current_state |-> f.new_state]]]

\* "Update conversation store"
UpdateConversationStore(f) ==
    IF f.raised # "" THEN f
    ELSE LET cid == f.conversation_id
             result == f.outcome[1]
             created == IF cid \notin DOMAIN f.conversations
                        THEN [c \in DOMAIN f.conversations \cup {cid} |->
                                 IF c = cid
                                 THEN [question_id |-> f.question_id,
                                       history |-> <<>>,
                                       current_state |-> f.new_state]
                                 ELSE f.conversations[c]]
                        ELSE f.conversations
             extended == [created EXCEPT ![cid].history = @ \o
                            <<[role |-> "user", content |-> f.request.instruction],
                              [role |-> "assistant",
                               content |-> "Changes: " \o result.changes_made]>>]
         IN [f EXCEPT !.conversations =
                          [extended EXCEPT ![cid].current_state = f.new_state]]

\* Variant: each statement commits on its own, so a failure after the insert
\* leaves the RefinementEntry behind without the Question update.
SessionCommit_PerStatement(f, pending_refinements, pending_questions) ==
    IF f.commit_ok
    THEN [f EXCEPT !.refinements = @ \o pending_refinements,
                   !.questions = pending_questions]
    ELSE [f EXCEPT !.refinements = @ \o pending_refinements,
                   !.raised = "PersistenceFailure"]

\* session.commit(): the pending inserts and updates reach the tables together, or
\* the commit raises and none of them does.
SessionCommit(f, pending_refinements, pending_questions) ==
    IF f.commit_ok
    THEN [f EXCEPT !.refinements = @ \o pending_refinements,
                   !.questions = pending_questions]
    ELSE [f EXCEPT !.raised = "PersistenceFailure"]

\* Variant: the topic is assigned like the other fields, whatever the result holds.
UpdatedQuestion_TopicAlways(question, result, new_state) ==
    [question EXCEPT !.question_text = result.question_text,
                     !.difficulty = result.difficulty,
                     !.explanation = result.explanation,
                     !.correct_answer = result.correct_answer,
                     !.options = new_state.options,
                     !.topic = result.topic]

\* "Update the question with new state"
UpdatedQuestion(question, result, new_state) ==
    [question EXCEPT !.question_text = result.question_text,
                     !.difficulty = result.difficulty,
                     !.explanation = result.explanation,
                     !.correct_answer = result.correct_answer,
                     !.options = new_state.options,
                     !.topic = IF TruthyStr(result.topic) THEN result.topic ELSE @]

\* Variant: the caller's identity is not required for persistence.
SaveRefinement_AnyCaller(f) ==
    IF f.raised # "" THEN f
    ELSE IF f.question_id # None
    THEN LET qid == f.question_id[1]
             result == f.outcome[1]
             refinement == [question_id |-> qid,
                            instruction |-> f.request.instruction,
                            changes_made |-> result.changes_made,
                            previous_state |-> f.question_state,
                            new_state |-> f.new_state]
         IN SessionCommit(f, <<refinement>>,
                [f.questions EXCEPT ![qid] = UpdatedQuestion(@, result, f.new_state)])
    ELSE f

\* Variant: the RefinementEntry is built but never added to the session.
SaveRefinement_EntryNotAdded(f) ==
    IF f.raised # "" THEN f
    ELSE IF f.question_id # None /\ f.current_user # None
    THEN LET qid == f.question_id[1]
             result == f.outcome[1]
         IN SessionCommit(f, <<>>,
                [f.questions EXCEPT ![qid] = UpdatedQuestion(@, result, f.new_state)])
    ELSE f

\* Variant: a failed commit also takes the turn back out of the conversation store.
SaveRefinement_RestoringConversation(f) ==
    IF f.raised # "" THEN f
    ELSE IF f.question_id # None /\ f.current_user # None
    THEN LET qid == f.question_id[1]
             result == f.outcome[1]
             refinement == [question_id |-> qid,
                            instruction |-> f.request.instruction,
                            changes_made |-> result.changes_made,
                            previous_state |-> f.question_state,
                            new_state |-> f.new_state]
             g == SessionCommit(f, <<refinement>>,
                    [f.questions EXCEPT ![qid] = UpdatedQuestion(@, result, f.new_state)])
         IN IF g.raised = "" THEN g ELSE [g EXCEPT !.conversations = conversations]
    ELSE f

\* "Save refinement to database if we have a question"
SaveRefinement(f) ==
    IF f.raised # "" THEN f
    ELSE IF f.question_id # None /\ f.current_user # None
    THEN LET qid == f.question_id[1]
             result == f.outcome[1]
             refinement == [question_id |-> qid,
                            instruction |-> f.request.instruction,
                            changes_made |-> result.changes_made,
                            previous_state |-> f.question_state,
                            new_state |-> f.new_state]
         IN SessionCommit(f, <<refinement>>,
                [f.questions EXCEPT ![qid] = UpdatedQuestion(@, result, f.new_state)])
    ELSE f

\* "Build response question" and the RefinementResponse.  QuestionPublic is built
\* without created_at, which models.py declares without a default; the construction
\* is taken to succeed, as the repository's tests of the handler assert.
BuildResponse(f) ==
    IF f.raised # "" THEN f
    ELSE LET result == f.outcome[1] IN
         [f EXCEPT !.response = Some(
             [conversation_id |-> f.conversation_id,
              refined_question |->
                  [id |-> f.question_id,
                   question_text |-> result.question_text,
                   question_type |-> IF result.question_type = "mcq"
                                     THEN QuestionType_MCQ ELSE QuestionType_OPEN_ENDED,
                   difficulty |-> result.difficulty,
                   topic |-> OrStr(result.topic, f.question_state.topic),
                   explanation |-> result.explanation,
                   correct_answer |-> result.correct_answer,
                   options |-> f.new_state.options,
                   confidence_score |-> result.confidence_score],
              changes_made |-> result.changes_made,
              confidence_score |-> result.confidence_score,
              turn_number |-> f.turn_number])]

----------------------------------------------------------------------------
(* api/routes/refinement.py: get_conversation and reset_conversation *)

\* uuid.uuid4() whose value is only returned: a different one in every handler run
Uuid4(run) == <<"uuid4", run>>

\* Variant: an id with no conversation is answered with an empty conversation.
GetConversationResponse_DefaultingAbsent(store, conversation_id, run) ==
    IF conversation_id \notin DOMAIN store
    THEN [status |-> "200",
          body |-> [conversation_id |-> conversation_id,
                    question_id |-> Some(Uuid4(run)),
                    turns |-> <<>>]]
    ELSE LET conv == store[conversation_id] IN
         [status |-> "200",
          body |-> [conversation_id |-> conversation_id,
                    question_id |-> IF conv.question_id # None
                                    THEN conv.question_id ELSE Some(Uuid4(run)),
                    turns |-> conv.history,
                    current_state |-> ModelDump(conv.current_state)]]

\* get_conversation: the ConversationHistory returned, or NotFound
GetConversationResponse(store, conversation_id, run) ==
    IF conversation_id \notin DOMAIN store
    THEN [status |-> "404"]
    ELSE LET conv == store[conversation_id] IN
         [status |-> "200",
          body |-> [conversation_id |-> conversation_id,
                    question_id |-> IF conv.question_id # None
                                    THEN conv.question_id ELSE Some(Uuid4(run)),
                    turns |-> conv.history,
                    current_state |-> ModelDump(conv.current_state)]]

\* Variant: a reset empties the conversation's history and keeps its entry.
ResetConversationStore_KeepingEntry(store, conversation_id) ==
    IF conversation_id \in DOMAIN store
    THEN [store EXCEPT ![conversation_id].history = <<>>]
    ELSE store

\* reset_conversation: the store after the call
ResetConversationStore(store, conversation_id) ==
    IF conversation_id \in DOMAIN store
    THEN [c \in DOMAIN store \ {conversation_id} |-> store[c]]
    ELSE store

\* Variant: a reset of an id with no conversation is answered as a reset.
ResetConversationResponse_Tolerant(store, conversation_id) ==
    [status |-> "200",
     body |-> [status |-> "reset", conversation_id |-> conversation_id]]

\* reset_conversation: the response
ResetConversationResponse(store, conversation_id) ==
    IF conversation_id \in DOMAIN store
    THEN [status |-> "200",
          body |-> [status |-> "reset", conversation_id |-> conversation_id]]
    ELSE [status |-> "404"]

----------------------------------------------------------------------------
(* What the environment answers *)

\* The engine answers only a handler run that reaches the generator call, and the
\* database answers only a run that reaches session.commit().
EngineAnswers(request) ==
    IF GetQuestionState(Frame(request, None, None, TRUE)).raised = ""
    THEN GenerationOutcomes ELSE {None}

CommitAnswers(request, current_user, outcome) ==
    IF /\ GetQuestionState(Frame(request, None, None, TRUE)).raised = ""
       /\ outcome # None /\ request.question_id # None /\ current_user # None
    THEN BOOLEAN ELSE {TRUE}

\* Variant: the user turn is written to an existing conversation before the
\* generator is called.
RefineQuestion_RecordingFirst(f) ==
    LET g == HandleConversationContinuity(GetQuestionState(f))
        early == IF /\ g.raised = ""
                    /\ g.request.conversation_id # None
                    /\ g.request.conversation_id[1] \in DOMAIN g.conversations
                 THEN [g EXCEPT !.conversations[g.request.conversation_id[1]].history =
                          @ \o <<[role |-> "user", content |-> g.request.instruction]>>]
                 ELSE g
    IN BuildResponse(SaveRefinement(UpdateConversationStore(CreateOrUpdateConversation(
           GenerateRefinement(early)))))

\* the handler, top to bottom
RefineQuestion(f) ==
    BuildResponse(SaveRefinement(UpdateConversationStore(CreateOrUpdateConversation(
        GenerateRefinement(HandleConversationContinuity(GetQuestionState(f)))))))

----------------------------------------------------------------------------
(* Running counts kept beside the program: per conversation id, the refine   *)
(* calls since the conversation was created that passed generation          *)
(* (generated) and that returned a response (answered), with the new state  *)
(* the latest of each produced; per question id, the refine calls that      *)
(* named it and returned a response, and those among them made with an      *)
(* identity; and the conversation ids that a reset has deleted and no       *)
(* refine call has recorded a turn for since.                               *)

\* every conversation id a run can hold
ConversationIds ==
    InventedIds \cup (1..(IF MaxCalls > MaxLifecycleCalls THEN MaxCalls ELSE MaxLifecycleCalls))

ZeroTally ==
    [generated |-> [c \in ConversationIds |-> 0],
     answered |-> [c \in ConversationIds |-> 0],
     lastGenerated |-> [c \in ConversationIds |-> None],
     lastAnswered |-> [c \in ConversationIds |-> None],
     byQuestion |-> [q \in QuestionIds |-> 0],
     byQuestionIdentified |-> [q \in QuestionIds |-> 0],
     reset |-> {}]

TallyAfterRefine(f, before) ==
    LET passed == f.raised \in {"", "PersistenceFailure"}
        ok == f.raised = ""
        cid == f.conversation_id
        t1 == IF passed
              THEN [tally EXCEPT !.generated[cid] =
                        IF cid \in DOMAIN before THEN @ + 1 ELSE 1,
                                 !.answered[cid] =
                        IF cid \in DOMAIN before THEN @ + (IF ok THEN 1 ELSE 0)
                        ELSE (IF ok THEN 1 ELSE 0),
                                 !.reset = @ \ {cid},
                                 !.lastGenerated[cid] = Some(f.new_state),
                                 !.lastAnswered[cid] =
                        IF ok THEN Some(f.new_state)
                        ELSE IF cid \in DOMAIN before THEN @ ELSE None]
              ELSE tally
    IN IF ok /\ f.request.question_id # None
       THEN [t1 EXCEPT !.byQuestion[f.request.question_id[1]] = @ + 1,
                       !.byQuestionIdentified[f.request.question_id[1]] =
                           @ + (IF f.current_user # None THEN 1 ELSE 0)]
       ELSE t1

\* no request is waiting for its handler to run
NoneInFlight == [arrived |-> 0, pending |-> {}, answered |-> <<>>]

----------------------------------------------------------------------------
(* Actions *)

Init ==
    /\ questions = InitialQuestions
    /\ refinements = <<>>
    /\ conversations = <<>>
    /\ nminted = 0
    /\ issued = {}
    /\ call = [op |-> "none"]
    /\ gen = NotCalled
    /\ resp = [status |-> "none"]
    /\ tally = ZeroTally
    /\ sessions = <<>>
    /\ ncalls = 0
    /\ inflight = NoneInFlight

\* what a handler run leaves on record of the run before it
PreviousCall ==
    [op |-> call.op,
     status |-> resp.status,
     conversation_id |->
        IF call.op \in {"get_conversation", "reset_conversation"}
        THEN Some(call.conversation_id)
        ELSE IF call.op = "refine"
        THEN (IF resp.status = "200" THEN Some(resp.body.conversation_id)
              ELSE call.request.conversation_id)
        ELSE None]

\* One run of the handler body for a request, reading the conversation store as
\* store.  The body has no await: it runs from its first statement to its return
\* without another handler running in between.
RefineRun(request, current_user, store) ==
       \E outcome \in EngineAnswers(request) :
       \E commit_ok \in CommitAnswers(request, current_user, outcome) :
        /\ \E f \in {RefineQuestion([Frame(request, current_user, outcome, commit_ok)
                                         EXCEPT !.conversations = store])} :
            /\ questions' = f.questions
            /\ refinements' = f.refinements
            /\ conversations' = f.conversations
            /\ nminted' = f.nminted
            /\ issued' = IF f.raised = ""
                         THEN issued \cup {f.response[1].conversation_id} ELSE issued
            /\ call' = [op |-> "refine", request |-> request,
                        current_user |-> current_user,
                        existed |-> request.conversation_id # None
                            /\ request.conversation_id[1] \in DOMAIN conversations,
                        entries_before |->
                            IF request.conversation_id # None
                               /\ request.conversation_id[1] \in DOMAIN conversations
                            THEN Len(conversations[request.conversation_id[1]].history)
                            ELSE 0,
                        was_reset |-> request.conversation_id # None
                            /\ request.conversation_id[1] \in tally.reset]
            /\ gen' = f.gen
            /\ resp' = IF f.raised = ""
                       THEN [status |-> "200", body |-> f.response[1]]
                       ELSE [status |-> f.raised]
            /\ tally' = TallyAfterRefine(f, conversations)

\* POST /refine, for the given request bodies and callers
RefineCall(requests, users, limit) ==
    /\ ncalls < limit
    /\ \E request \in requests, current_user \in users :
          RefineRun(request, current_user, conversations)
    /\ ncalls' = ncalls + 1
    /\ UNCHANGED <<sessions, inflight>>

\* GET /conversation/{conversation_id}
GetConversationCall(limit) ==
    /\ ncalls < limit
    /\ \E conversation_id \in KnownConversationIds :
        /\ call' = [op |-> "get_conversation", conversation_id |-> conversation_id,
                    previous |-> PreviousCall]
        /\ resp' = GetConversationResponse(conversations, conversation_id, ncalls)
    /\ gen' = NotCalled
    /\ ncalls' = ncalls + 1
    /\ UNCHANGED <<questions, refinements, conversations, nminted, issued, tally, sessions,
                 inflight>>

\* POST /conversation/{conversation_id}/reset
ResetConversationCall(limit) ==
    /\ ncalls < limit
    /\ \E conversation_id \in KnownConversationIds :
        /\ call' = [op |-> "reset_conversation", conversation_id |-> conversation_id,
                    previous |-> PreviousCall]
        /\ conversations' = ResetConversationStore(conversations, conversation_id)
        /\ resp' = ResetConversationResponse(conversations, conversation_id)
        /\ tally' = IF conversation_id \in DOMAIN conversations
                    THEN [tally EXCEPT !.reset = @ \cup {conversation_id}] ELSE tally
    /\ gen' = NotCalled
    /\ ncalls' = ncalls + 1
    /\ UNCHANGED <<questions, refinements, nminted, issued, sessions, inflight>>

Refine == RefineCall(RefinementRequests, CurrentUsers, MaxCalls)

GetConversation == GetConversationCall(MaxCalls)

ResetConversation == ResetConversationCall(MaxCalls)

\* DELETE /questions/{question_id}
DeleteQuestion ==
    /\ ncalls < MaxCalls
    /\ \E question_id \in QuestionIds, current_user \in CallerIds :
        /\ call' = [op |-> "delete_question", question_id |-> question_id,
                    current_user |-> Some(current_user)]
        /\ IF question_id \notin DOMAIN questions
           THEN /\ resp' = [status |-> "404"]
                /\ UNCHANGED <<questions, refinements>>
           ELSE IF questions[question_id].owner_id # Some(current_user)
           THEN /\ resp' = [status |-> "403"]
                /\ UNCHANGED <<questions, refinements>>
           ELSE /\ resp' = [status |-> "200"]
                /\ questions' = [q \in DOMAIN questions \ {question_id} |-> questions[q]]
                /\ refinements' = SelectSeq(refinements,
                                      LAMBDA e : e.question_id # question_id)
    /\ gen' = NotCalled
    /\ ncalls' = ncalls + 1
    /\ UNCHANGED <<conversations, nminted, issued, tally, sessions, inflight>>

Next ==
    \/ Refine
    \/ GetConversation
    \/ ResetConversation
    \/ DeleteQuestion

Spec == Init /\ [][Next]_vars

\* The conversation handlers alone, called anonymously without a question id.
LifecycleRefine == RefineCall(LifecycleRequests, {None}, MaxLifecycleCalls)

LifecycleGet == GetConversationCall(MaxLifecycleCalls)

LifecycleReset == ResetConversationCall(MaxLifecycleCalls)

LifecycleNext ==
    \/ LifecycleRefine
    \/ LifecycleGet
    \/ LifecycleReset

LifecycleSpec == Init /\ [][LifecycleNext]_vars

\* Requests that are in flight together: anonymous, with an inline state, naming a
\* conversation id, and with an instruction that tells one request's turn from
\* another's.
ConcurrentInstructions == {"Make harder", "Make easier"}

ConcurrentRequests ==
    { [r EXCEPT !.instruction = i] :
        r \in {x \in LifecycleRequests :
                 /\ x.question_state # None /\ x.question_state[1] \in InlineStates
                 /\ x.conversation_id # None},
        i \in ConcurrentInstructions }

\* Variant: a handler run works on the conversation store as it stood when its
\* request arrived.
StoreAtRun_AsOfArrival(p) == p.seen

\* The store a handler run works on.  refine_question is a coroutine without an
\* await and its generator call is synchronous, so the event loop runs one handler
\* body at a time and each reads _conversations as the run before it left it.
StoreAtRun(p) == conversations

\* The server receives a refine request; its handler has not run yet.
AcceptRequest ==
    /\ inflight.arrived < MaxInFlightCalls
    /\ \E request \in ConcurrentRequests :
        inflight' = [inflight EXCEPT
                        !.arrived = @ + 1,
                        !.pending = @ \cup {[arrival |-> inflight.arrived + 1,
                                             request |-> request,
                                             seen |-> conversations]}]
    /\ UNCHANGED <<questions, refinements, conversations, nminted, issued, call, gen,
                   resp, tally, sessions, ncalls>>

\* The event loop runs the handler of one of the waiting requests, whichever
\* became ready first.
RunInFlight ==
    /\ \E p \in inflight.pending :
        /\ RefineRun(p.request, None, StoreAtRun(p))
        /\ inflight' = [inflight EXCEPT
                !.pending = @ \ {p},
                !.answered = Append(@,
                    [arrival |-> p.arrival,
                     request |-> p.request,
                     seen |-> p.seen,
                     waiting |-> {q.arrival : q \in inflight.pending \ {p}},
                     status |-> resp'.status,
                     conversation_id |-> IF resp'.status = "200"
                                         THEN Some(resp'.body.conversation_id) ELSE None,
                     turn_number |-> IF resp'.status = "200"
                                     THEN resp'.body.turn_number ELSE 0,
                     changes_made |-> IF resp'.status = "200"
                                      THEN resp'.body.changes_made ELSE ""])]
    /\ ncalls' = ncalls + 1
    /\ UNCHANGED sessions

ConcurrencyNext ==
    \/ AcceptRequest
    \/ RunInFlight

ConcurrencySpec == Init /\ [][ConcurrencyNext]_vars

----------------------------------------------------------------------------
(* Strings of the generation routes, by their lengths: leading white space, *)
(* the text between, trailing white space.                                  *)

Text(lead, core, trail) == [lead |-> lead, core |-> core, trail |-> trail]

\* len(s)
StrLen(s) == s.lead + s.core + s.trail

\* s.strip()
Strip(s) == Text(0, s.core, 0)

Min(a, b) == IF a < b THEN a ELSE b

\* s[:n]
Prefix(s, n) ==
    LET lead == Min(s.lead, n)
        core == Min(s.core, n - lead)
        trail == Min(s.trail, n - lead - core)
    IN Text(lead, core, trail)

\* TextGenerationRequest.content: min_length
MinContentLength == 50
\* generate_from_pdf: the least length of the trimmed extracted text
MinPdfTextLength == 50
\* TextGenerationRequest.num_questions and the num_questions form field: le
MaxNumQuestions == 20
\* the stored preview of a text source
TextPreviewLength == 1000
\* SimilarityRequest.question_text: min_length
MinQuestionTextLength == 10
\* SimilarityRequest.num_similar: le
MaxNumSimilar == 10
\* the stored preview of a similarity source
SimilarityPreviewLength == 500

\* Source texts: empty, nine characters, sixty blanks, fifty-two characters of which
\* forty-seven remain after trimming, exactly fifty, and twelve hundred.
Contents ==
    { Text(0, 0, 0), Text(0, 9, 0), Text(60, 0, 0), Text(3, 47, 2),
      Text(0, 50, 0), Text(0, 1200, 0) }

\* what extract_text_from_pdf returns: it raises unless the text has content
ExtractedTexts == {c \in Contents : Strip(c).core > 0}

NumQuestionsSent == {2, 21}

\* GeneratedQuestion values the engine can return
GeneratedQuestionItems ==
    { [question_text |-> "text-g1", question_type |-> "mcq", difficulty |-> "easy",
       topic |-> "Biology", explanation |-> "expl-g1",
       options |-> Some(<<OptA(TRUE), OptB(FALSE)>>), correct_answer |-> "A",
       confidence_score |-> 90],
      [question_text |-> "text-g2", question_type |-> "open_ended", difficulty |-> "hard",
       topic |-> "Biology", explanation |-> "expl-g2",
       options |-> None, correct_answer |-> "free-g2",
       confidence_score |-> 70] }

\* GeneratedQuestions values: the schema puts no length on the list
GeneratedQuestionsValues ==
    LET g1 == CHOOSE g \in GeneratedQuestionItems : g.question_type = "mcq"
        g2 == CHOOSE g \in GeneratedQuestionItems : g.question_type = "open_ended"
    IN { [questions |-> l, generation_summary |-> "summary"] :
            l \in {<<>>, <<g1, g2>>, <<g2, g1, g1>>} }

\* a generator method either raises (None) or returns its value
GeneratedQuestionsOutcomes == {None} \cup {Some(r) : r \in GeneratedQuestionsValues}

\* SimilarityAnalysis values: an analysis and the variation suggestions
SimilarityAnalysisValues ==
    { [analysis |-> [topic |-> "Mathematics", subtopic |-> "Multiplication",
                     difficulty |-> "easy", question_type |-> "mcq",
                     key_concepts |-> <<"unit price">>,
                     mathematical_operations |-> Some(<<"multiplication">>),
                     format_style |-> "word_problem"],
       variation_suggestions |-> <<"vary the price">>],
      [analysis |-> [topic |-> "History", subtopic |-> "Dates",
                     difficulty |-> "hard", question_type |-> "open_ended",
                     key_concepts |-> <<"chronology">>,
                     mathematical_operations |-> None,
                     format_style |-> "short_answer"],
       variation_suggestions |-> <<>>] }

SimilarityAnalysisOutcomes == {None} \cup {Some(a) : a \in SimilarityAnalysisValues}

\* question types and an out-of-range count are sent with the fifty-character text
TextGenerationRequests ==
    { b \in [content : Contents, num_questions : NumQuestionsSent,
             question_types : {None, Some(<<"MCQ", "essay">>)}] :
        (b.question_types # None \/ b.num_questions > MaxNumQuestions)
            => b.content = Text(0, 50, 0) }

\* an upload whose name does not end in .pdf, or whose count is out of range, is one
\* whose bytes do not parse
PdfUploads ==
    { u \in [filename_is_pdf : BOOLEAN,
             extracted : {None} \cup {Some(t) : t \in ExtractedTexts},
             num_questions : NumQuestionsSent] :
        (~u.filename_is_pdf \/ u.num_questions > MaxNumQuestions) => u.extracted = None }

\* options and an out-of-range count are sent with the long question text
SimilarityRequests ==
    { b \in [question_text : {Text(0, 5, 0), Text(0, 600, 0)},
             options : {None, Some(<<OptA(FALSE), OptB(TRUE)>>)},
             num_similar : {2, 11}] :
        (b.options # None \/ b.num_similar > MaxNumSimilar)
            => b.question_text = Text(0, 600, 0) }

----------------------------------------------------------------------------
(* api/routes/generation.py and api/routes/similarity.py.  A handler run    *)
(* yields the failure it raised ("" for none), the session table, the calls *)
(* it made to the generator in order, and its response.                     *)

\* [QuestionType.MCQ if t.lower() == "mcq" else QuestionType.OPEN_ENDED for t in ...]
ParseQuestionTypes(question_types) ==
    IF question_types = None \/ Len(question_types[1]) = 0 THEN None
    ELSE Some([i \in 1..Len(question_types[1]) |->
                  IF question_types[1][i] \in {"mcq", "MCQ", "Mcq"}
                  THEN QuestionType_MCQ ELSE QuestionType_OPEN_ENDED])

\* the Question row built from a generated item
QuestionOfGenerated(q, session_id, current_user) ==
    [question_text |-> q.question_text,
     question_type |-> IF q.question_type = "mcq"
                       THEN QuestionType_MCQ ELSE QuestionType_OPEN_ENDED,
     difficulty |-> q.difficulty, topic |-> q.topic, explanation |-> q.explanation,
     correct_answer |-> q.correct_answer,
     options |-> IF TruthyList(q.options) THEN q.options ELSE None,
     confidence_score |-> q.confidence_score,
     session_id |-> session_id, owner_id |-> current_user]

\* session.add(gen_session) ... session.commit(): the session row and one Question
\* row per returned item, in one transaction
PersistGeneration(table, source_type, source_content, requested, current_user, result, commit_ok) ==
    IF ~commit_ok THEN table
    ELSE LET id == Len(table) + 1 IN
         Append(table,
            [id |-> id, source_type |-> source_type, source_content |-> source_content,
             num_questions_requested |-> requested, user_id |-> current_user,
             questions |-> [i \in 1..Len(result.questions) |->
                              QuestionOfGenerated(result.questions[i], id, current_user)]])

NoGeneration(raised, table) ==
    [raised |-> raised, sessions |-> table, calls |-> <<>>, response |-> None]

\* the steps the document routes share once the source text is accepted
GenerateAndStore(table, content, source_type, source_content, num_questions, q_types, current_user, outcome, commit_ok, extra) ==
    LET calls == <<[fn |-> "generate_from_document", content |-> content,
                    num_questions |-> num_questions, question_types |-> q_types,
                    result |-> outcome]>>
    IN IF outcome = None
       THEN [raised |-> "GenerationFailure", sessions |-> table, calls |-> calls,
             response |-> None]
       ELSE IF ~commit_ok
       THEN [raised |-> "PersistenceFailure", sessions |-> table, calls |-> calls,
             response |-> None]
       ELSE LET after == PersistGeneration(table, source_type, source_content,
                                           num_questions, current_user, outcome[1], TRUE)
                row == after[Len(after)]
            IN [raised |-> "", sessions |-> after, calls |-> calls,
                response |-> Some([session_id |-> row.id,
                                   questions |-> row.questions,
                                   generation_summary |-> outcome[1].generation_summary,
                                   source_type |-> source_type,
                                   page_count |-> extra])]

\* TextGenerationRequest validation
ValidTextGenerationRequest(body) ==
    /\ StrLen(body.content) >= MinContentLength
    /\ body.num_questions >= 1
    /\ body.num_questions <= MaxNumQuestions

\* generate_from_text
GenerateFromTextHandler(table, body, current_user, outcome, commit_ok) ==
    IF ~ValidTextGenerationRequest(body) THEN NoGeneration("422", table)
    ELSE GenerateAndStore(table, body.content, "text",
                          Prefix(body.content, TextPreviewLength), body.num_questions,
                          ParseQuestionTypes(body.question_types),
                          current_user, outcome, commit_ok, None)

\* what generate_from_pdf does before it calls the generator
PdfRejection(upload) ==
    IF upload.num_questions < 1 \/ upload.num_questions > MaxNumQuestions THEN "422"
    ELSE IF ~upload.filename_is_pdf THEN "400"
    ELSE IF upload.extracted = None THEN "422"
    ELSE IF StrLen(upload.extracted[1]) = 0
            \/ StrLen(Strip(upload.extracted[1])) < MinPdfTextLength THEN "422"
    ELSE ""

\* generate_from_pdf
GenerateFromPdfHandler(table, upload, current_user, outcome, commit_ok) ==
    IF PdfRejection(upload) # "" THEN NoGeneration(PdfRejection(upload), table)
    ELSE GenerateAndStore(table, upload.extracted[1], "pdf", "PDF: filename",
                          upload.num_questions, None,
                          current_user, outcome, commit_ok, Some(1))

\* SimilarityRequest validation
ValidSimilarityRequest(body) ==
    /\ StrLen(body.question_text) >= MinQuestionTextLength
    /\ body.num_similar >= 1
    /\ body.num_similar <= MaxNumSimilar

\* the attributes the similarity routes read from the value analyze_question returned
AnalysisResponseFields ==
    <<"topic", "subtopic", "difficulty", "question_type", "key_concepts",
      "mathematical_operations", "format_style", "variation_suggestions">>

\* AnalysisResponse(topic=analysis.topic, ...): an attribute the object does not
\* have raises AttributeError
BuildAnalysisResponse(analysis) ==
    IF \E i \in 1..Len(AnalysisResponseFields) :
            AnalysisResponseFields[i] \notin DOMAIN analysis
    THEN [raised |-> "AttributeError", body |-> None]
    ELSE [raised |-> "",
          body |-> Some([topic |-> analysis.topic, subtopic |-> analysis.subtopic,
                         difficulty |-> analysis.difficulty,
                         question_type |-> analysis.question_type,
                         key_concepts |-> analysis.key_concepts,
                         mathematical_operations |-> analysis.mathematical_operations,
                         format_style |-> analysis.format_style,
                         variation_suggestions |-> analysis.variation_suggestions])]

AnalyzeCall(body, outcome) ==
    [fn |-> "analyze_question", question_text |-> body.question_text,
     options |-> body.options, result |-> outcome]

\* analyze_question (the route)
AnalyzeQuestionHandler(table, body, outcome) ==
    IF ~ValidSimilarityRequest(body) THEN NoGeneration("422", table)
    ELSE LET calls == <<AnalyzeCall(body, outcome)>> IN
         IF outcome = None
         THEN [raised |-> "GenerationFailure", sessions |-> table, calls |-> calls,
               response |-> None]
         ELSE [raised |-> BuildAnalysisResponse(outcome[1]).raised, sessions |-> table,
               calls |-> calls, response |-> BuildAnalysisResponse(outcome[1]).body]

SimilarCall(body, analysis, outcome) ==
    [fn |-> "generate_similar", original_question |-> body.question_text,
     analysis |-> analysis, num_questions |-> body.num_similar,
     options |-> body.options, result |-> outcome]

\* Variant: a failed analysis is replaced by an empty one and generation goes on.
GenerateSimilarQuestionsHandler_DefaultAnalysis(table, body, current_user, analysis_outcome, similar_outcome, commit_ok) ==
    IF ~ValidSimilarityRequest(body) THEN NoGeneration("422", table)
    ELSE LET analysis == IF analysis_outcome = None
                         THEN [analysis |-> [topic |-> ""], variation_suggestions |-> <<>>]
                         ELSE analysis_outcome[1]
             calls == <<AnalyzeCall(body, analysis_outcome),
                        SimilarCall(body, analysis, similar_outcome)>>
         IN IF similar_outcome = None
            THEN [raised |-> "GenerationFailure", sessions |-> table, calls |-> calls,
                  response |-> None]
            ELSE IF ~commit_ok
            THEN [raised |-> "PersistenceFailure", sessions |-> table, calls |-> calls,
                  response |-> None]
            ELSE [raised |-> BuildAnalysisResponse(analysis).raised,
                  sessions |-> PersistGeneration(table, "similarity",
                                  Prefix(body.question_text, SimilarityPreviewLength),
                                  body.num_similar, current_user, similar_outcome[1], TRUE),
                  calls |-> calls, response |-> None]

\* generate_similar_questions
GenerateSimilarQuestionsHandler(table, body, current_user, analysis_outcome, similar_outcome, commit_ok) ==
    IF ~ValidSimilarityRequest(body) THEN NoGeneration("422", table)
    ELSE IF analysis_outcome = None
    THEN [raised |-> "GenerationFailure", sessions |-> table,
          calls |-> <<AnalyzeCall(body, analysis_outcome)>>, response |-> None]
    ELSE LET analysis == analysis_outcome[1]
             calls == <<AnalyzeCall(body, analysis_outcome),
                        SimilarCall(body, analysis, similar_outcome)>>
         IN IF similar_outcome = None
            THEN [raised |-> "GenerationFailure", sessions |-> table, calls |-> calls,
                  response |-> None]
            ELSE IF ~commit_ok
            THEN [raised |-> "PersistenceFailure", sessions |-> table, calls |-> calls,
                  response |-> None]
            ELSE LET after == PersistGeneration(table, "similarity",
                                  Prefix(body.question_text, SimilarityPreviewLength),
                                  body.num_similar, current_user, similar_outcome[1], TRUE)
                     row == after[Len(after)]
                     original == BuildAnalysisResponse(analysis)
                 IN [raised |-> original.raised, sessions |-> after, calls |-> calls,
                     response |-> IF original.raised # "" THEN None
                                  ELSE Some([session_id |-> row.id,
                                             original_analysis |-> original.body[1],
                                             similar_questions |-> row.questions,
                                             generation_summary |->
                                                 similar_outcome[1].generation_summary])]

\* the generator and the database answer only when a handler run reaches them
OutcomesIf(reached, outcomes) == IF reached THEN outcomes ELSE {None}

CommitsIf(reached) == IF reached THEN BOOLEAN ELSE {TRUE}

\* what a run of a generation handler leaves in the variables
Answered(op, body, current_user, r) ==
    /\ sessions' = r.sessions
    /\ call' = [op |-> op, body |-> body, current_user |-> current_user]
    /\ gen' = IF Len(r.calls) = 0 THEN NotCalled ELSE [called |-> TRUE, calls |-> r.calls]
    /\ resp' = IF r.raised = "" THEN [status |-> "200", body |-> r.response[1]]
               ELSE [status |-> r.raised]
    /\ ncalls' = ncalls + 1
    /\ UNCHANGED <<questions, refinements, conversations, nminted, issued, tally, inflight>>

\* POST /generate/from-text
GenerateFromText ==
    /\ ncalls < MaxGenerationCalls
    /\ \E body \in TextGenerationRequests, current_user \in CurrentUsers :
       \E outcome \in OutcomesIf(ValidTextGenerationRequest(body),
                                 GeneratedQuestionsOutcomes) :
       \E commit_ok \in CommitsIf(outcome # None) :
       \E r \in {GenerateFromTextHandler(sessions, body, current_user, outcome, commit_ok)} :
           Answered("generate_from_text", body, current_user, r)

\* POST /generate/from-pdf
GenerateFromPdf ==
    /\ ncalls < MaxGenerationCalls
    /\ \E upload \in PdfUploads, current_user \in CurrentUsers :
       \E outcome \in OutcomesIf(PdfRejection(upload) = "", GeneratedQuestionsOutcomes) :
       \E commit_ok \in CommitsIf(outcome # None) :
       \E r \in {GenerateFromPdfHandler(sessions, upload, current_user, outcome, commit_ok)} :
           Answered("generate_from_pdf", upload, current_user, r)

\* POST /similar/analyze
AnalyzeQuestion ==
    /\ ncalls < MaxGenerationCalls
    /\ \E body \in SimilarityRequests :
       \E outcome \in OutcomesIf(ValidSimilarityRequest(body), SimilarityAnalysisOutcomes) :
       \E r \in {AnalyzeQuestionHandler(sessions, body, outcome)} :
           Answered("analyze_question", body, None, r)

\* POST /similar/generate
GenerateSimilarQuestions ==
    /\ ncalls < MaxGenerationCalls
    /\ \E body \in SimilarityRequests, current_user \in CurrentUsers :
       \E analysis_outcome \in OutcomesIf(ValidSimilarityRequest(body),
                                          SimilarityAnalysisOutcomes) :
       \E similar_outcome \in OutcomesIf(analysis_outcome # None,
                                         GeneratedQuestionsOutcomes) :
       \E commit_ok \in CommitsIf(similar_outcome # None) :
       \E r \in {GenerateSimilarQuestionsHandler(sessions, body, current_user,
                     analysis_outcome, similar_outcome, commit_ok)} :
           Answered("generate_similar_questions", body, current_user, r)

GenerationNext ==
    \/ GenerateFromText
    \/ GenerateFromPdf
    \/ AnalyzeQuestion
    \/ GenerateSimilarQuestions

GenerationSpec == Init /\ [][GenerationNext]_vars

----------------------------------------------------------------------------
(* Properties *)

RefineAnswered == call.op = "refine" /\ resp.status = "200"
RefineAnswered_next == call'.op = "refine" /\ resp'.status = "200"

\* the fields QuestionState and a stored Question row share with a new_state dict
OverwrittenFieldsMatch(question, state) ==
    /\ question.question_text = state.question_text
    /\ question.difficulty = state.difficulty
    /\ question.explanation = state.explanation
    /\ question.correct_answer = state.correct_answer
    /\ question.options = state.options

EntriesOf(entries, q) == SelectSeq(entries, LAMBDA e : e.question_id = q)

\* C1: a refine call whose generation fails changes nothing: no conversation is
\* created, no conversation's history or snapshot changes, and no RefinementEntry
\* or Question row is written.
C1_GenerationFailureIsAtomic ==
    [][(call'.op = "refine" /\ resp'.status = "GenerationFailure")
        => /\ conversations' = conversations
           /\ questions' = questions
           /\ refinements' = refinements]_vars

\* C1 witness: generation failed on a call naming an existing conversation.
C1_Witness ==
    /\ call.op = "refine"
    /\ resp.status = "GenerationFailure"
    /\ call.existed
    /\ gen.called

C8_EntryAndQuestionCommitTogether ==
    [][call'.op = "refine"
        => /\ \/ refinements' = refinements /\ questions' = questions
              \/ /\ Len(refinements') = Len(refinements) + 1
                 /\ SubSeq(refinements', 1, Len(refinements)) = refinements
                 /\ LET e == refinements'[Len(refinements')] IN
                    /\ e.question_id \in DOMAIN questions'
                    /\ OverwrittenFieldsMatch(questions'[e.question_id], e.new_state)
                    /\ \A q \in DOMAIN questions \ {e.question_id} :
                          questions'[q] = questions[q]
           /\ resp'.status = "PersistenceFailure"
                 => refinements' = refinements /\ questions' = questions]_vars

\* C8 witness: a commit failed on a question that an earlier call had refined.
C8_Witness ==
    /\ call.op = "refine"
    /\ resp.status = "PersistenceFailure"
    /\ Len(refinements) = 1
    /\ call.request.question_id = Some(refinements[1].question_id)

\* C9 as claimed: a refine call naming a Question owned by another identified user
\* leaves that Question's row and its RefinementEntry rows as they were.
C9_OtherOwnersQuestionUntouched ==
    [][(/\ call'.op = "refine"
        /\ call'.request.question_id # None
        /\ call'.current_user # None
        /\ call'.request.question_id[1] \in DOMAIN questions
        /\ questions[call'.request.question_id[1]].owner_id # None
        /\ questions[call'.request.question_id[1]].owner_id # call'.current_user)
        => LET qid == call'.request.question_id[1] IN
           /\ questions'[qid] = questions[qid]
           /\ EntriesOf(refinements', qid) = EntriesOf(refinements, qid)]_vars

\* C10 as claimed: a refine request giving neither or both of question_id and
\* question_state fails with status 400, the generation engine is not called and
\* no conversation changes.
C10_ExactlyOneTargetRequired ==
    [][(/\ call'.op = "refine"
        /\ (call'.request.question_id = None) = (call'.request.question_state = None))
        => /\ resp'.status = "400"
           /\ ~gen'.called
           /\ conversations' = conversations]_vars

\* C11: once a first refine call has established a conversation, a second refine
\* call that gives only that conversation_id and an instruction (no question_id, no
\* question_state) succeeds, returns the same conversation_id and turn_number 2.
C11_ContinuesWithConversationIdOnly ==
    (/\ call.op = "refine"
     /\ call.existed
     /\ call.entries_before = 2
     /\ call.request.question_id = None
     /\ call.request.question_state = None)
    => /\ resp.status = "200"
       /\ resp.body.conversation_id = call.request.conversation_id[1]
       /\ resp.body.turn_number = 2

\* C12: a refine call whose question_id names no stored Question fails with NotFound
\* before the generation engine is called, and leaves every conversation (the one its
\* conversation_id names included), every Question and every RefinementEntry as it was.
C12_MissingQuestionIsNotFound ==
    [][(/\ call'.op = "refine"
        /\ call'.request.question_id # None
        /\ call'.request.question_id[1] \notin DOMAIN questions)
        => /\ resp'.status = "404"
           /\ ~gen'.called
           /\ conversations' = conversations
           /\ questions' = questions
           /\ refinements' = refinements]_vars

\* C12 witness: NotFound on a call that named an existing conversation.
C12_Witness ==
    /\ call.op = "refine"
    /\ resp.status = "404"
    /\ call.existed
    /\ call.request.question_id[1] \notin DOMAIN questions

\* C13: get_conversation changes no conversation, fails with NotFound on an id with
\* no conversation, returns the stored history and current state otherwise, and called
\* again for the same id directly after itself returns the same history and state.
C13_GetConversationIsARead ==
    [][call'.op = "get_conversation"
        => LET id == call'.conversation_id IN
           /\ conversations' = conversations
           /\ questions' = questions
           /\ refinements' = refinements
           /\ id \notin DOMAIN conversations => resp'.status = "404"
           /\ id \in DOMAIN conversations =>
                /\ resp'.status = "200"
                /\ resp'.body.turns = conversations[id].history
                /\ resp'.body.current_state = conversations[id].current_state
           /\ (call.op = "get_conversation" /\ call.conversation_id = id) =>
                /\ resp'.status = resp.status
                /\ resp.status = "200" =>
                    /\ resp'.body.turns = resp.body.turns
                    /\ resp'.body.current_state = resp.body.current_state]_vars

\* C13 witness: a second read, directly after a first, of a conversation with turns.
C13_Witness ==
    /\ call.op = "get_conversation"
    /\ call.previous.op = "get_conversation"
    /\ call.previous.conversation_id = Some(call.conversation_id)
    /\ resp.status = "200"
    /\ Len(resp.body.turns) >= 2

\* C14: reset of an existing conversation deletes it and nothing else, a
\* get_conversation directly after it fails with NotFound, and a reset of an id with
\* no conversation (a second reset of the same id included) fails with NotFound and
\* changes nothing.
C14_ResetDeletesOrNotFound ==
    [][/\ call'.op = "reset_conversation" =>
            LET id == call'.conversation_id IN
            /\ questions' = questions
            /\ refinements' = refinements
            /\ id \in DOMAIN conversations =>
                /\ resp'.status = "200"
                /\ DOMAIN conversations' = DOMAIN conversations \ {id}
                /\ \A c \in DOMAIN conversations' : conversations'[c] = conversations[c]
            /\ id \notin DOMAIN conversations =>
                /\ resp'.status = "404"
                /\ conversations' = conversations
            /\ (call.op = "reset_conversation" /\ call.conversation_id = id) =>
                resp'.status = "404"
       /\ (/\ call'.op = "get_conversation"
           /\ call.op = "reset_conversation"
           /\ call.conversation_id = call'.conversation_id) => resp'.status = "404"]_vars

\* C14 witness: the second of two resets of one conversation.
C14_Witness ==
    /\ call.op = "reset_conversation"
    /\ resp.status = "404"
    /\ call.previous.op = "reset_conversation"
    /\ call.previous.status = "200"
    /\ call.previous.conversation_id = Some(call.conversation_id)

C17_ExactlyCountItems ==
    (/\ call.op = "generate_from_text"
     /\ gen.called
     /\ gen.calls[1].result # None)
    => /\ Len(gen.calls[1].result[1].questions) = call.body.num_questions
       /\ resp.status = "200" =>
            /\ Len(resp.body.questions) = call.body.num_questions
            /\ Len(sessions[Len(sessions)].questions) = call.body.num_questions

\* C18: in a similarity generation request the analysis call is the first call to the
\* generator and generate_similar, when made, is the second and is given the value
\* the analysis call returned; when the analysis call fails generate_similar is not
\* called, the failure reaches the caller and no row is persisted.
C18_AnalysisPrecedesGeneration ==
    [][call'.op = "generate_similar_questions"
        => /\ ~gen'.called => (sessions' = sessions /\ resp'.status = "422")
           /\ gen'.called =>
                LET calls == gen'.calls IN
                /\ calls[1].fn = "analyze_question"
                /\ \A i \in 1..Len(calls) :
                      calls[i].fn = "generate_similar" =>
                          /\ i = 2
                          /\ calls[1].result # None
                          /\ calls[i].analysis = calls[1].result[1]
                /\ calls[1].result = None =>
                      /\ Len(calls) = 1
                      /\ resp'.status = "GenerationFailure"
                      /\ sessions' = sessions
                /\ calls[1].result # None =>
                      /\ Len(calls) = 2
                      /\ calls[2].fn = "generate_similar"]_vars

\* C18 witness: generate_similar was called with the analysis the first call returned,
\* and its questions were persisted.
C18_Witness ==
    /\ call.op = "generate_similar_questions"
    /\ gen.called
    /\ Len(gen.calls) = 2
    /\ gen.calls[2].analysis = gen.calls[1].result[1]
    /\ gen.calls[2].result # None
    /\ Len(sessions) > 0
    /\ sessions[Len(sessions)].source_type = "similarity"

\* C19: a from-text or from-pdf request whose source text, after trimming, is empty
\* or shorter than the 50-character minimum is rejected before any call to the
\* generator and persists nothing.
C19_ShortSourceNeverGenerated ==
    [][/\ (/\ call'.op = "generate_from_text"
           /\ StrLen(Strip(call'.body.content)) < MinContentLength)
          => (~gen'.called /\ resp'.status = "422" /\ sessions' = sessions)
       /\ (/\ call'.op = "generate_from_pdf"
           /\ call'.body.extracted # None
           /\ StrLen(Strip(call'.body.extracted[1])) < MinContentLength)
          => (~gen'.called /\ resp'.status \in {"400", "422"} /\ sessions' = sessions)]_vars

\* C20: when the generator returns an analysis for a valid analyze request, the
\* analyze operation answers 200 with that analysis's topic, subtopic, difficulty,
\* type, key concepts, mathematical operations, format style and variation
\* suggestions.
C20_AnalysisReturnedUnchanged ==
    (/\ call.op = "analyze_question"
     /\ gen.called
     /\ gen.calls[1].result # None)
    => LET returned == gen.calls[1].result[1] IN
       /\ resp.status = "200"
       /\ resp.body.topic = returned.analysis.topic
       /\ resp.body.subtopic = returned.analysis.subtopic
       /\ resp.body.difficulty = returned.analysis.difficulty
       /\ resp.body.question_type = returned.analysis.question_type
       /\ resp.body.key_concepts = returned.analysis.key_concepts
       /\ resp.body.mathematical_operations = returned.analysis.mathematical_operations
       /\ resp.body.format_style = returned.analysis.format_style
       /\ resp.body.variation_suggestions = returned.variation_suggestions

\* C22: when the commit of a refine call fails after generation succeeded, the
\* caller receives a failure, the conversation the call names (or creates) holds
\* the turn in memory (its history is the old one followed by the user entry and
\* the assistant entry, its snapshot is the new state built from the result), and
\* the store has neither a new RefinementEntry nor a changed Question row.
C22_FailedCommitKeepsTurnInMemoryOnly ==
    [][(call'.op = "refine" /\ resp'.status = "PersistenceFailure")
        => /\ gen'.called
           /\ refinements' = refinements
           /\ questions' = questions
           /\ \E cid \in DOMAIN conversations' :
              \E result \in RefinedQuestions :
                LET old == IF cid \in DOMAIN conversations
                           THEN conversations[cid].history ELSE <<>>
                IN /\ IF call'.request.conversation_id # None
                      THEN cid = call'.request.conversation_id[1]
                      ELSE cid \notin DOMAIN conversations
                   /\ conversations'[cid].history = old \o
                        <<[role |-> "user", content |-> call'.request.instruction],
                          [role |-> "assistant",
                           content |-> "Changes: " \o result.changes_made]>>
                   /\ conversations'[cid].current_state
                        = NewState(result, gen'.question_state)
                   /\ \A c \in DOMAIN conversations \ {cid} :
                        conversations'[c] = conversations[c]]_vars

\* C22 witness: a refine call on an existing conversation failed at the commit and
\* the conversation holds that call's turn after an earlier one.
C22_Witness ==
    /\ call.op = "refine"
    /\ resp.status = "PersistenceFailure"
    /\ call.existed
    /\ call.request.conversation_id # None
    /\ Len(conversations[call.request.conversation_id[1]].history) = 4
    /\ refinements = <<>>

\* the refine step persisted: one RefinementEntry more than before
RefinePersisted_next ==
    /\ call'.op = "refine"
    /\ Len(refinements') = Len(refinements) + 1

\* The fields of the overwritten row other than its options, against the result
\* the engine returned (identified by the entry's changes_made).
OverwriteFollowsResult(result) ==
    LET e == refinements'[Len(refinements')]
        q == e.question_id
    IN /\ result.changes_made = e.changes_made
       /\ q \in DOMAIN questions /\ DOMAIN questions' = DOMAIN questions
       /\ questions'[q].question_text = result.question_text
       /\ questions'[q].difficulty = result.difficulty
       /\ questions'[q].explanation = result.explanation
       /\ questions'[q].correct_answer = result.correct_answer
       /\ questions'[q].topic = IF TruthyStr(result.topic) THEN result.topic
                                ELSE questions[q].topic
       /\ questions'[q].owner_id = questions[q].owner_id
       /\ questions'[q].session_id = questions[q].session_id
       /\ \A other \in DOMAIN questions \ {q} : questions'[other] = questions[other]

\* C23 as amended: when a refine call persists, the Question's text, difficulty,
\* explanation and correct answer are overwritten with the result's values and its
\* options with the result's option list, or with no options when the result has
\* none or an empty list; its topic is overwritten only when the result supplies a
\* non-empty topic; its owner, generation-session reference and id are unchanged.
C23_OverwriteWithNormalisedOptions ==
    [][RefinePersisted_next
        => \E result \in RefinedQuestions :
            /\ OverwriteFollowsResult(result)
            /\ questions'[refinements'[Len(refinements')].question_id].options
                 = IF TruthyList(result.options) THEN result.options ELSE None]_vars

\* C23 witness: the persisted result had an empty option list and an empty topic;
\* the row has no options and kept its topic.
C23_Witness ==
    /\ RefineAnswered
    /\ Len(refinements) = 1
    /\ refinements[1].changes_made = "reworded"
    /\ questions[refinements[1].question_id].options = None
    /\ questions[refinements[1].question_id].topic = Some("Biology")
    /\ questions[refinements[1].question_id].question_text = "text-r3"

\* C23 as claimed: when a refine call persists, the Question's text, difficulty,
\* explanation, correct answer and options are overwritten with the result's
\* values, its topic only when the result supplies a non-empty one, and its owner,
\* generation-session reference and id are unchanged.
C23_OverwriteWithResultValues ==
    [][RefinePersisted_next
        => \E result \in RefinedQuestions :
            /\ OverwriteFollowsResult(result)
            /\ questions'[refinements'[Len(refinements')].question_id].options
                 = result.options]_vars

\* C24 as claimed: a refine call that finds no existing conversation (it names no
\* conversation id, or one that matches nothing) and passes generation creates a
\* conversation whose id is freshly minted -- not the id the caller supplied and
\* not the id of a conversation that already exists -- whose history holds only
\* this call's turn, and answers turn number 1.
C24_CreatedConversationHasFreshId ==
    [][(/\ call'.op = "refine"
        /\ ~call'.existed
        /\ resp'.status \in {"200", "PersistenceFailure"})
        => \E cid \in DOMAIN conversations' \ DOMAIN conversations :
            /\ DOMAIN conversations' = DOMAIN conversations \cup {cid}
            /\ call'.request.conversation_id # Some(cid)
            /\ Len(conversations'[cid].history) = 2
            /\ gen'.conversation_history = <<>>
            /\ resp'.status = "200"
                 => /\ resp'.body.conversation_id = cid
                    /\ resp'.body.turn_number = 1]_vars

\* the answered runs on conversation c that returned a response, in run order
RunsOn(c) ==
    SelectSeq(inflight.answered,
              LAMBDA a : a.status = "200" /\ a.conversation_id = Some(c))

AlternatesFromUser(history) ==
    /\ Len(history) % 2 = 0
    /\ \A i \in 1..Len(history) :
        history[i].role = IF i % 2 = 1 THEN "user" ELSE "assistant"

\* C26 as amended: every stored conversation's history has even length, alternates
\* user and assistant entries starting with a user entry, and its length is twice
\* the number of refine calls naming that conversation that passed generation since
\* it was last created, whether or not their persistence commit then succeeded.
C26_HistoryCountsGeneratedTurns ==
    \A c \in DOMAIN conversations :
        /\ AlternatesFromUser(conversations[c].history)
        /\ Len(conversations[c].history) = 2 * tally.generated[c]

\* C26 witness: a conversation holds two turns, one of them from a call whose
\* commit failed.
C26_Witness ==
    \E c \in DOMAIN conversations :
        /\ Len(conversations[c].history) = 4
        /\ tally.generated[c] = 2
        /\ tally.answered[c] = 1

\* C26 as claimed: every stored conversation's history has even length, alternates
\* user and assistant entries starting with a user entry, and its length is twice
\* the number of successful refine calls on that conversation since it was last
\* created.
C26_HistoryCountsSuccessfulCalls ==
    \A c \in DOMAIN conversations :
        /\ AlternatesFromUser(conversations[c].history)
        /\ Len(conversations[c].history) = 2 * tally.answered[c]

\* C27 as claimed: every RefinementEntry's previous_state equals the field values
\* its Question held in the store immediately before the refinement overwrote it.
C27_PreviousStateIsStoredQuestion ==
    [][RefinePersisted_next
        => LET e == refinements'[Len(refinements')] IN
           e.previous_state = StateOfQuestion(questions[e.question_id])]_vars

\* C28 as claimed: immediately after a refine call commits to a persisted Question,
\* the row's text, type, difficulty, topic, explanation, correct answer and options
\* all equal the new_state of the RefinementEntry the call wrote.
C28_RowEqualsNewState ==
    [][RefinePersisted_next
        => LET e == refinements'[Len(refinements')] IN
           StateOfQuestion(questions'[e.question_id]) = e.new_state]_vars

\* C29 as claimed: a refine call leaves the linked question id of every existing
\* conversation as it was set at creation, and when a call naming an existing
\* conversation persists, the RefinementEntry it writes and the Question row it
\* overwrites are those of the conversation's linked question.
C29_WritesBelongToLinkedQuestion ==
    [][call'.op = "refine"
        => /\ \A c \in DOMAIN conversations :
                /\ c \in DOMAIN conversations'
                /\ conversations'[c].question_id = conversations[c].question_id
           /\ (RefinePersisted_next /\ call'.existed)
                => LET e == refinements'[Len(refinements')]
                       c == call'.request.conversation_id[1]
                   IN /\ conversations[c].question_id = Some(e.question_id)
                      /\ \A q \in DOMAIN questions :
                            questions'[q] # questions[q]
                                => conversations[c].question_id = Some(q)]_vars

\* C30 as claimed: a generation request (from text, from PDF, similar questions)
\* that ends in a failure leaves the session table as it was, with no new
\* GenerationSession and no new Question; one that succeeds adds exactly one
\* GenerationSession, whose questions are exactly those the response returns.
C30_FailureLeavesNoSession ==
    [][call'.op \in {"generate_from_text", "generate_from_pdf",
                     "generate_similar_questions"}
        => IF resp'.status # "200"
           THEN sessions' = sessions
           ELSE /\ Len(sessions') = Len(sessions) + 1
                /\ SubSeq(sessions', 1, Len(sessions)) = sessions
                /\ sessions'[Len(sessions')].questions =
                     IF call'.op = "generate_similar_questions"
                     THEN resp'.body.similar_questions
                     ELSE resp'.body.questions]_vars
====
